---- MODULE Spec2Model ----
(***************************************************************************)
(* Transfer-session lifecycle and batch ownership transfer of              *)
(* google-drive-ownership-transfer-node:                                   *)
(*   src/controllers/transferController.js   (TransferController)          *)
(*   src/services/googleDriveService.js      (GoogleDriveService)          *)
(*   src/database/models/FileTransfer.js     (FileTransfer,                *)
(*                                            TransferSession)             *)
(*   src/routes/transfer.js                  (request validation)          *)
(***************************************************************************)
EXTENDS Integers, Sequences, FiniteSets, TLC

\* ------------------------------------------------------------------------
\* Bounds of the model
\* ------------------------------------------------------------------------
MaxUsers == 2

MaxSessions == 2
\* sessions created in the lifecycle and the batch scenarios
MaxScenario == 1

MaxFiles == 2

MaxRuns == 2

\* failed writes of one file transfer
MaxRetries == 2

\* clock ticks in a calendar day (UTC)
TicksPerDay == 2

\* the clock runs over two days and stops at the start of the third
MaxTime == 2 * TicksPerDay

\* expiresAt - createdAt: 24 * 60 * 60 * 1000 ms, one day
Lifetime == TicksPerDay

UserIds == 1..MaxUsers

SessionIds == 1..MaxSessions

\* uuidv4(): the k-th session draws one uuid as its id and another as its
\* token; SessionTokenOf(k) is never equal to an id
SessionTokenOf(k) == <<"token", k>>

Tokens == {SessionTokenOf(k) : k \in SessionIds}

\* the files of the sender's Drive: file g is the Drive file with id g
GoogleFileIds == 1..2

\* request bodies: the `files` array of POST /session, lengths 0..MaxFiles
Manifests == UNION {[1..n -> GoogleFileIds] : n \in 0..MaxFiles}

VARIABLES
    now,          \* the clock, datetime('now')
    users,        \* table users: ids of the users that have authenticated
    sessions,     \* table transfer_sessions: id -> row
    files,        \* table file_transfers: id -> row
    nextSession,  \* number of uuids drawn for sessions so far
    nextFile,     \* number of uuids drawn for file transfers so far
    runs,         \* invocations of GoogleDriveService.transferFiles
    remoteLog,    \* the calls of transferFileOwnership in call order: the
                  \* run that made the call and the file transfer it is for
    res,          \* the last request (or sweep) and its response
    scenario,     \* session id -> 0, 1 (the receiver called accept on the
                  \* pending session), 2 (start was called after that)
    drive         \* a call of the Drive services' ownership transfer: its
                  \* arguments, its position, the grants on the Drive
                  \* files, the permission requests issued so far

vars == <<now, users, sessions, files, nextSession, nextFile, runs,
          remoteLog, res, scenario, drive>>

\* ------------------------------------------------------------------------
\* Helpers
\* ------------------------------------------------------------------------
NoMessage == "null"

\* the `progress` object of a response that carries none
NoProgress ==
    [total |-> 0, completed |-> 0, failed |-> 0, pending |-> 0,
     transferring |-> 0]

Response(op, sid, caller, code) ==
    [op |-> op, sid |-> sid, caller |-> caller, code |-> code,
     fileCount |-> 0, progress |-> NoProgress]

\* ids of a function's rows as an ascending sequence
RECURSIVE SortedSeq(_)
SortedSeq(S) ==
    IF S = {} THEN << >>
    ELSE LET m == CHOOSE x \in S : \A y \in S : x <= y
         IN <<m>> \o SortedSeq(S \ {m})

\* ------------------------------------------------------------------------
\* TransferSession (model)
\* ------------------------------------------------------------------------
\* an insert that replaces the table's rows
TransferSessionReplace(tbl, id, row) ==
    [i \in {id} |-> row]

\* INSERT INTO transfer_sessions
TransferSessionCreate(tbl, id, row) ==
    [i \in DOMAIN tbl \cup {id} |-> IF i = id THEN row ELSE tbl[i]]

\* expires_at is stored as the text of Date.prototype.toISOString,
\* 'YYYY-MM-DDTHH:MM:SS.sssZ': the date, the letter T, the time of day
ToISOString(t) == <<t \div TicksPerDay, "T", t % TicksPerDay>>

\* SQLite's datetime('now') is the text 'YYYY-MM-DD HH:MM:SS': the date, a
\* space, the time of day
DatetimeNow(t) == <<t \div TicksPerDay, " ", t % TicksPerDay>>

\* the character code of the separator between date and time
SeparatorCode(c) == IF c = "T" THEN 84 ELSE 32

\* SQLite compares two TEXT values byte by byte: by the date, then by the
\* separator, then by the time of day
TextLess(a, b) ==
    \/ a[1] < b[1]
    \/ /\ a[1] = b[1]
       /\ \/ SeparatorCode(a[2]) < SeparatorCode(b[2])
          \/ (a[2] = b[2] /\ a[3] < b[3])

\* SELECT ... WHERE session_token = ? AND expires_at > datetime('now')
\* the set of matching session ids (tokens are unique: zero or one row)
TransferSessionFindByToken(tok) ==
    {i \in DOMAIN sessions :
        /\ sessions[i].sessionToken = tok
        /\ TextLess(DatetimeNow(now), ToISOString(sessions[i].expiresAt))}

\* an update that also writes the metadata column
TransferSessionUpdateStatusAndMetadata(tbl, id, status) ==
    [i \in DOMAIN tbl |->
        IF i = id THEN [tbl[i] EXCEPT !.status = status, !.metadata = << >>]
        ELSE tbl[i]]

\* UPDATE transfer_sessions SET status = ? WHERE id = ?
TransferSessionUpdateStatus(tbl, id, status) ==
    [i \in DOMAIN tbl |->
        IF i = id THEN [tbl[i] EXCEPT !.status = status] ELSE tbl[i]]

\* ------------------------------------------------------------------------
\* FileTransfer (model)
\* ------------------------------------------------------------------------
\* SELECT * FROM file_transfers WHERE session_id = ? ORDER BY created_at ASC
FileTransferFindBySessionId(sid) ==
    SortedSeq({f \in DOMAIN files : files[f].sessionId = sid})

\* an update whose `completed` branch also sets retry_count = 0
FileTransferUpdateStatusResetting(tbl, id, status, errorMessage) ==
    [f \in DOMAIN tbl |->
        IF f # id THEN tbl[f]
        ELSE IF status = "transferring"
             THEN [tbl[f] EXCEPT !.status = status, !.started = TRUE]
        ELSE IF status = "completed"
             THEN [tbl[f] EXCEPT !.status = status, !.completed = TRUE,
                                 !.retryCount = 0]
        ELSE IF status = "failed"
             THEN [tbl[f] EXCEPT !.status = status,
                                 !.errorMessage = errorMessage,
                                 !.retryCount = @ + 1]
        ELSE [tbl[f] EXCEPT !.status = status]]

\* FileTransfer.updateStatus: the UPDATE of the row with this id
FileTransferUpdateStatus(tbl, id, status, errorMessage) ==
    [f \in DOMAIN tbl |->
        IF f # id THEN tbl[f]
        ELSE IF status = "transferring"
             THEN [tbl[f] EXCEPT !.status = status, !.started = TRUE]
        ELSE IF status = "completed"
             THEN [tbl[f] EXCEPT !.status = status, !.completed = TRUE]
        ELSE IF status = "failed"
             THEN [tbl[f] EXCEPT !.status = status,
                                 !.errorMessage = errorMessage,
                                 !.retryCount = @ + 1]
        ELSE [tbl[f] EXCEPT !.status = status]]

\* ------------------------------------------------------------------------
\* Identifier resolution in the source
\* ------------------------------------------------------------------------
\* transferController.js: every handler that takes a token destructures
\* `const { session_token } = req.query` and then evaluates
\* `TransferSession.findByToken(sessionToken)`. `sessionToken` is declared
\* nowhere in the handler or the module (only inside createTransferSession),
\* so evaluating it throws a ReferenceError, which the handler's catch turns
\* into a 500 response.
SessionTokenDeclared == TRUE

SessionTokenInScope == FALSE

\* googleDriveService.js: transferFiles calls
\* `fileTransfer.updateStatus(fileTransfer.id, ...)` on the rows it is given;
\* FileTransfer.findBySessionId builds these rows as object literals, which
\* carry no updateStatus method (updateStatus is a static of the class), so
\* the call throws a TypeError.
RowHasUpdateStatus == FALSE

\* ------------------------------------------------------------------------
\* The Drive API
\* ------------------------------------------------------------------------
\* drive.permissions.create for Drive file g: the provider accepts the
\* transfer of file 1 and rejects that of every other file
RemoteSucceeds(g) == g = 1

\* ------------------------------------------------------------------------
\* Authentication of the caller
\* ------------------------------------------------------------------------
\* the handlers read req.user.id ("From auth middleware"): the caller is a
\* user that has authenticated
Authenticated(caller) == caller \in users

\* ------------------------------------------------------------------------
\* The Drive services' ownership transfer (DriveService, GoogleDriveService)
\* ------------------------------------------------------------------------
\* a permission of a Drive file, as permissions.list returns it
Grant(id, emailAddress, type, role) ==
    [id |-> id, emailAddress |-> emailAddress, type |-> type, role |-> role]

\* what a Drive file can carry before the call, besides its owner: nothing,
\* a grant of user 2, a grant of the group with address 2, a grant of user 1
ExistingGrants ==
    {{}, {Grant(1, 2, "user", "writer")}, {Grant(1, 2, "group", "writer")},
     {Grant(1, 1, "user", "writer")}}

\* the `files` argument of batchTransferOwnership: {id, name} objects, the
\* name is the id's
FileLists == UNION {[1..n -> GoogleFileIds] : n \in 0..MaxFiles}

DriveIdle ==
    [fn |-> "none", pc |-> "idle", files |-> << >>, i |-> 0,
     newOwnerEmail |-> 0, perms |-> [g \in GoogleFileIds |-> {}],
     newOwnerPermission |-> 0, calls |-> << >>, invocations |-> << >>,
     results |-> << >>, errors |-> << >>, outcome |-> "none"]

\* permissions.find(p => p.emailAddress === newOwnerEmail && p.type === 'user')
FindAnyType(grants, newOwnerEmail) ==
    {p \in grants : p.emailAddress = newOwnerEmail}

FindUserGrant(grants, newOwnerEmail) ==
    {p \in grants : p.emailAddress = newOwnerEmail /\ p.type = "user"}

\* the id of the user grant that newOwnerEmail holds, 0 when there is none
UserGrantId(grants, newOwnerEmail) ==
    IF FindUserGrant(grants, newOwnerEmail) = {} THEN 0
    ELSE (CHOOSE p \in FindUserGrant(grants, newOwnerEmail) : TRUE).id

\* the id Drive gives to a permission it creates
NewPermissionId(grants) == Cardinality(grants) + 1

\* the file the call is working on
CurrentFile(d) == d.files[d.i]

\* a permission request as it leaves the service
Call(d, api, role, permissionId, ok) ==
    [inv |-> Len(d.invocations) + 1, fn |-> d.fn, api |-> api,
     fileId |-> CurrentFile(d), role |-> role, permissionId |-> permissionId,
     ok |-> ok,
     grant |-> UserGrantId(d.perms[CurrentFile(d)], d.newOwnerEmail)]

\* the loop of batchTransferOwnership with a catch block that rethrows
BatchAbortsOnError(d, ok, message) ==
    LET inv == [fileId |-> CurrentFile(d),
                outcome |-> IF ok THEN "resolved" ELSE "rejected",
                message |-> message]
    IN IF ok
       THEN [d EXCEPT !.invocations = Append(@, inv),
                      !.results = Append(@, [fileId |-> CurrentFile(d),
                                              status |-> "success"]),
                      !.i = @ + 1,
                      !.newOwnerPermission = 0,
                      !.pc = IF d.i < Len(d.files) THEN "list" ELSE "returned",
                      !.outcome = IF d.i < Len(d.files) THEN "none"
                                  ELSE "resolved"]
       ELSE [d EXCEPT !.invocations = Append(@, inv),
                      !.newOwnerPermission = 0,
                      !.pc = "thrown", !.outcome = "rejected"]

\* batchTransferOwnership: the call of transferOwnership for the current
\* file has settled; push to results or to errors, go on with the next file
BatchSettle(d, ok, message) ==
    LET inv == [fileId |-> CurrentFile(d),
                outcome |-> IF ok THEN "resolved" ELSE "rejected",
                message |-> message]
        more == d.i < Len(d.files)
    IN [d EXCEPT !.invocations = Append(@, inv),
                 !.results = IF ok
                             THEN Append(@, [fileId |-> CurrentFile(d),
                                             status |-> "success"])
                             ELSE @,
                 !.errors = IF ok THEN @
                            ELSE Append(@, [fileId |-> CurrentFile(d),
                                            status |-> "failed",
                                            error |-> message]),
                 !.i = @ + 1,
                 !.newOwnerPermission = 0,
                 !.pc = IF more THEN "list" ELSE "returned",
                 !.outcome = IF more THEN "none" ELSE "resolved"]

\* the per-file transfer returns (ok) or throws; inside a batch the batch
\* goes on
Settle(d, ok, message) ==
    IF d.fn = "batchTransferOwnership"
    THEN BatchSettle(d, ok, message)
    ELSE [d EXCEPT !.invocations =
                       Append(@, [fileId |-> CurrentFile(d),
                                  outcome |-> IF ok THEN "resolved"
                                              ELSE "rejected",
                                  message |-> message]),
                   !.pc = IF ok THEN "returned" ELSE "thrown",
                   !.outcome = IF ok THEN "resolved" ELSE "rejected"]

\* `Failed to transfer ownership: ${error.message}`
FailedToTransfer(api) == <<"Failed to transfer ownership", api>>

\* ------------------------------------------------------------------------
\* Initial state: an empty database, no request served yet
\* ------------------------------------------------------------------------
Init ==
    /\ now = 0
    /\ users = {}
    /\ sessions = << >>
    /\ files = << >>
    /\ nextSession = 0
    /\ nextFile = 0
    /\ runs = << >>
    /\ remoteLog = << >>
    /\ res = Response("none", 0, 0, 0)
    /\ scenario = [s \in SessionIds |-> 0]
    /\ drive = DriveIdle

\* ------------------------------------------------------------------------
\* Environment: time passes; a user authenticates for the first time
\* ------------------------------------------------------------------------
Tick ==
    /\ now < MaxTime
    /\ now' = now + 1
    /\ UNCHANGED <<drive, users, sessions, files, nextSession, nextFile, runs,
                   remoteLog, res, scenario>>

\* User.create, called by the OAuth callback
\* the u-th user to authenticate is given id u
UserCreate(u) ==
    /\ u = Cardinality(users) + 1
    /\ users' = users \cup {u}
    /\ UNCHANGED <<drive, now, sessions, files, nextSession, nextFile, runs,
                   remoteLog, res, scenario>>

\* ------------------------------------------------------------------------
\* TransferController.createTransferSession behind POST /session
\* ------------------------------------------------------------------------
\* rows inserted with the one status of the file_transfers schema that
\* getTransferProgress does not count
NewFileRowsSkipped(sid, sender, receiver, manifest) ==
    [f \in (nextFile + 1)..(nextFile + Len(manifest)) |->
        [sessionId |-> sid,
         googleFileId |-> manifest[f - nextFile],
         originalOwnerId |-> sender,
         newOwnerId |-> receiver,
         status |-> "skipped",
         started |-> FALSE,
         completed |-> FALSE,
         errorMessage |-> NoMessage,
         retryCount |-> 0]]

\* the rows FileTransfer.create inserts for the manifest, in manifest order
NewFileRows(sid, sender, receiver, manifest) ==
    [f \in (nextFile + 1)..(nextFile + Len(manifest)) |->
        [sessionId |-> sid,
         googleFileId |-> manifest[f - nextFile],
         originalOwnerId |-> sender,
         newOwnerId |-> receiver,
         status |-> "pending",
         started |-> FALSE,
         completed |-> FALSE,
         errorMessage |-> NoMessage,
         retryCount |-> 0]]

\* create without the lookup of the receiver
createWithoutReceiverLookup(sender, receiverEmail, manifest) ==
    /\ Authenticated(sender)
    /\ IF Len(manifest) < 1
       THEN /\ res' = Response("create", 0, sender, 400)
            /\ UNCHANGED <<sessions, files, nextSession, nextFile>>
       ELSE /\ nextSession < MaxSessions
            /\ LET sid == nextSession + 1
                   row == [sessionToken |-> SessionTokenOf(sid),
                           senderUserId |-> sender,
                           receiverUserId |-> receiverEmail,
                           status |-> "pending",
                           expiresAt |-> now + Lifetime,
                           metadata |-> manifest]
                   new == NewFileRows(sid, sender, receiverEmail, manifest)
               IN /\ sessions' = TransferSessionCreate(sessions, sid, row)
                  /\ files' = [f \in DOMAIN files \cup DOMAIN new |->
                                  IF f \in DOMAIN new THEN new[f] ELSE files[f]]
                  /\ nextSession' = sid
                  /\ nextFile' = nextFile + Len(manifest)
                  /\ res' = Response("create", sid, sender, 200)
    /\ UNCHANGED <<drive, now, users, runs, remoteLog, scenario>>

\* create without the validation of the manifest
createWithoutValidation(sender, receiverEmail, manifest) ==
    /\ Authenticated(sender)
    /\ IF receiverEmail \notin users
       THEN /\ res' = Response("create", 0, sender, 404)
            /\ UNCHANGED <<sessions, files, nextSession, nextFile>>
       ELSE /\ nextSession < MaxSessions
            /\ LET sid == nextSession + 1
                   row == [sessionToken |-> SessionTokenOf(sid),
                           senderUserId |-> sender,
                           receiverUserId |-> receiverEmail,
                           status |-> "pending",
                           expiresAt |-> now + Lifetime,
                           metadata |-> manifest]
                   new == NewFileRows(sid, sender, receiverEmail, manifest)
               IN /\ sessions' = TransferSessionCreate(sessions, sid, row)
                  /\ files' = [f \in DOMAIN files \cup DOMAIN new |->
                                  IF f \in DOMAIN new THEN new[f] ELSE files[f]]
                  /\ nextSession' = sid
                  /\ nextFile' = nextFile + Len(manifest)
                  /\ res' = Response("create", sid, sender, 200)
    /\ UNCHANGED <<drive, now, users, runs, remoteLog, scenario>>

createTransferSession(sender, receiverEmail, manifest) ==
    /\ Authenticated(sender)
    /\ IF Len(manifest) < 1
       THEN \* routes/transfer.js: body('files').isArray({ min: 1 })
            /\ res' = Response("create", 0, sender, 400)
            /\ UNCHANGED <<sessions, files, nextSession, nextFile>>
       ELSE IF receiverEmail \notin users
       THEN \* User.findByEmail returned null
            /\ res' = Response("create", 0, sender, 404)
            /\ UNCHANGED <<sessions, files, nextSession, nextFile>>
       ELSE /\ nextSession < MaxSessions
            /\ LET sid == nextSession + 1
                   row == [sessionToken |-> SessionTokenOf(sid),
                           senderUserId |-> sender,
                           receiverUserId |-> receiverEmail,
                           status |-> "pending",
                           expiresAt |-> now + Lifetime,
                           metadata |-> manifest]
                   new == NewFileRows(sid, sender, receiverEmail, manifest)
               IN /\ sessions' = TransferSessionCreate(sessions, sid, row)
                  /\ files' = [f \in DOMAIN files \cup DOMAIN new |->
                                  IF f \in DOMAIN new THEN new[f] ELSE files[f]]
                  /\ nextSession' = sid
                  /\ nextFile' = nextFile + Len(manifest)
                  /\ res' = Response("create", sid, sender, 200)
    /\ UNCHANGED <<drive, now, users, runs, remoteLog, scenario>>

\* POST /session when the database rejects a statement: failAt = 0 is the
\* INSERT of the session, failAt = k the INSERT of the k-th file transfer.
\* The rejection is rethrown by the model method and caught by the handler's
\* catch block, which answers 500; what was inserted before stays
createTransferSessionDbError(sender, receiverEmail, manifest, failAt) ==
    /\ Authenticated(sender)
    /\ Len(manifest) >= 1
    /\ receiverEmail \in users
    /\ failAt \in 0..Len(manifest)
    /\ nextSession < MaxSessions
    /\ LET sid == nextSession + 1
           row == [sessionToken |-> SessionTokenOf(sid),
                   senderUserId |-> sender,
                   receiverUserId |-> receiverEmail,
                   status |-> "pending",
                   expiresAt |-> now + Lifetime,
                   metadata |-> manifest]
           new == NewFileRows(sid, sender, receiverEmail, manifest)
           kept == {f \in DOMAIN new : f < nextFile + failAt}
       IN /\ sessions' = IF failAt = 0 THEN sessions
                         ELSE TransferSessionCreate(sessions, sid, row)
          /\ files' = [f \in DOMAIN files \cup kept |->
                          IF f \in kept THEN new[f] ELSE files[f]]
          /\ nextSession' = sid
          /\ nextFile' = nextFile + failAt
          /\ res' = Response("create", sid, sender, 500)
    /\ UNCHANGED <<drive, now, users, runs, remoteLog, scenario>>

\* ------------------------------------------------------------------------
\* The handlers that take :sessionId and ?session_token
\* ------------------------------------------------------------------------
\* the request names session sid by its own id and token, and the session
\* has not expired
NamesSession(sid, tok) ==
    /\ sid \in DOMAIN sessions
    /\ sessions[sid].sessionToken = tok
    /\ sessions[sid].expiresAt > now

\* GET /session/:sessionId: the session found by the token with the file
\* transfers of :sessionId; fileCount is the number of files listed
getTransferSession(sid, tok) ==
    /\ IF ~SessionTokenInScope
       THEN res' = Response("get", sid, 0, 500)
       ELSE IF TransferSessionFindByToken(tok) = {}
       THEN res' = Response("get", sid, 0, 404)
       ELSE res' = [Response("get", sid, 0, 200) EXCEPT
                       !.fileCount = Len(FileTransferFindBySessionId(sid))]
    /\ UNCHANGED <<drive, now, users, sessions, files, nextSession, nextFile, runs,
                   remoteLog, scenario>>

\* accept without the comparison of the caller with the session's receiver
acceptWithoutReceiverCheck(sid, tok, caller) ==
    /\ Authenticated(caller)
    /\ LET found == TransferSessionFindByToken(tok)
       IN IF found = {}
          THEN /\ res' = Response("accept", sid, caller, 404)
               /\ UNCHANGED sessions
          ELSE IF \E i \in found : sessions[i].status # "pending"
          THEN /\ res' = Response("accept", sid, caller, 400)
               /\ UNCHANGED sessions
          ELSE /\ sessions' = TransferSessionUpdateStatus(
                                  sessions, sid, "authenticated")
               /\ res' = Response("accept", sid, caller, 200)
    /\ UNCHANGED <<drive, now, users, files, nextSession, nextFile, runs, remoteLog,
                   scenario>>

acceptTransferSession(sid, tok, caller) ==
    /\ Authenticated(caller)
    /\ IF ~SessionTokenInScope
       THEN /\ res' = Response("accept", sid, caller, 500)
            /\ UNCHANGED sessions
       ELSE LET found == TransferSessionFindByToken(tok)
            IN IF found = {} \/ \E i \in found :
                                   sessions[i].receiverUserId # caller
               THEN /\ res' = Response("accept", sid, caller, 404)
                    /\ UNCHANGED sessions
               ELSE IF \E i \in found : sessions[i].status # "pending"
               THEN /\ res' = Response("accept", sid, caller, 400)
                    /\ UNCHANGED sessions
               ELSE /\ sessions' = TransferSessionUpdateStatus(
                                       sessions, sid, "authenticated")
                    /\ res' = Response("accept", sid, caller, 200)
    /\ scenario' =
          IF /\ NamesSession(sid, tok)
             /\ sessions[sid].receiverUserId = caller
             /\ sessions[sid].status = "pending"
             /\ scenario[sid] = 0
          THEN [scenario EXCEPT ![sid] = 1]
          ELSE scenario
    /\ UNCHANGED <<drive, now, users, files, nextSession, nextFile, runs, remoteLog>>

\* what the handlers pass to transferFiles: the rows of findBySessionId
RowsOf(sid) ==
    LET ids == FileTransferFindBySessionId(sid)
    IN [k \in 1..Len(ids) |->
           [id |-> ids[k],
            googleFileId |-> files[ids[k]].googleFileId,
            originalOwnerId |-> files[ids[k]].originalOwnerId,
            newOwnerId |-> files[ids[k]].newOwnerId]]

NewRun(sid, origin) ==
    [sessionId |-> sid, rows |-> RowsOf(sid), idx |-> 1, pc |-> "mark",
     origin |-> origin, state |-> "running"]

\* start without the session lookup and the status check
startWithoutStatusCheck(sid, tok) ==
    /\ sid \in DOMAIN sessions
    /\ Len(runs) < MaxRuns
    /\ sessions' = TransferSessionUpdateStatus(sessions, sid, "transferring")
    /\ runs' = Append(runs, NewRun(sid, "background"))
    /\ res' = [Response("start", sid, 0, 200) EXCEPT
                  !.fileCount = Len(RowsOf(sid))]
    /\ UNCHANGED <<drive, now, users, files, nextSession, nextFile, remoteLog,
                   scenario>>

startTransfer(sid, tok) ==
    /\ IF ~SessionTokenInScope
       THEN /\ res' = Response("start", sid, 0, 500)
            /\ UNCHANGED <<sessions, runs>>
       ELSE LET found == TransferSessionFindByToken(tok)
            IN IF found = {}
               THEN /\ res' = Response("start", sid, 0, 404)
                    /\ UNCHANGED <<sessions, runs>>
               ELSE IF \E i \in found : sessions[i].status # "authenticated"
               THEN /\ res' = Response("start", sid, 0, 400)
                    /\ UNCHANGED <<sessions, runs>>
               ELSE /\ Len(runs) < MaxRuns
                    /\ sessions' = TransferSessionUpdateStatus(
                                       sessions, sid, "transferring")
                    \* setImmediate(async () => { transferFiles ... })
                    /\ runs' = Append(runs, NewRun(sid, "background"))
                    /\ res' = [Response("start", sid, 0, 200) EXCEPT
                                  !.fileCount = Len(RowsOf(sid))]
    /\ scenario' =
          IF NamesSession(sid, tok) /\ scenario[sid] = 1
          THEN [scenario EXCEPT ![sid] = 2]
          ELSE scenario
    /\ UNCHANGED <<drive, now, users, files, nextSession, nextFile, remoteLog>>

\* the number of rows of session sid with the given status
CountStatus(sid, status) ==
    Cardinality({f \in DOMAIN files :
                    files[f].sessionId = sid /\ files[f].status = status})

Progress(sid) ==
    [total |-> Len(FileTransferFindBySessionId(sid)),
     completed |-> CountStatus(sid, "completed"),
     failed |-> CountStatus(sid, "failed"),
     pending |-> CountStatus(sid, "pending"),
     transferring |-> CountStatus(sid, "transferring")]

getTransferProgress(sid, tok) ==
    /\ IF ~SessionTokenInScope
       THEN res' = Response("progress", sid, 0, 500)
       ELSE IF TransferSessionFindByToken(tok) = {}
       THEN res' = Response("progress", sid, 0, 404)
       ELSE res' = [Response("progress", sid, 0, 200) EXCEPT
                       !.progress = Progress(sid)]
    /\ UNCHANGED <<drive, now, users, sessions, files, nextSession, nextFile, runs,
                   remoteLog, scenario>>

cancelTransferSession(sid, tok, caller) ==
    /\ Authenticated(caller)
    /\ IF ~SessionTokenInScope
       THEN /\ res' = Response("cancel", sid, caller, 500)
            /\ UNCHANGED sessions
       ELSE LET found == TransferSessionFindByToken(tok)
            IN IF found = {} \/ \E i \in found :
                                   /\ sessions[i].senderUserId # caller
                                   /\ sessions[i].receiverUserId # caller
               THEN /\ res' = Response("cancel", sid, caller, 404)
                    /\ UNCHANGED sessions
               ELSE /\ sessions' = TransferSessionUpdateStatus(
                                       sessions, sid, "cancelled")
                    /\ res' = Response("cancel", sid, caller, 200)
    /\ UNCHANGED <<drive, now, users, files, nextSession, nextFile, runs, remoteLog,
                   scenario>>

rejectTransferSession(sid, tok, caller) ==
    /\ Authenticated(caller)
    /\ IF ~SessionTokenInScope
       THEN /\ res' = Response("reject", sid, caller, 500)
            /\ UNCHANGED sessions
       ELSE LET found == TransferSessionFindByToken(tok)
            IN IF found = {} \/ \E i \in found :
                                   sessions[i].receiverUserId # caller
               THEN /\ res' = Response("reject", sid, caller, 404)
                    /\ UNCHANGED sessions
               ELSE /\ sessions' = TransferSessionUpdateStatus(
                                       sessions, sid, "cancelled")
                    /\ res' = Response("reject", sid, caller, 200)
    /\ UNCHANGED <<drive, now, users, files, nextSession, nextFile, runs, remoteLog,
                   scenario>>

\* ------------------------------------------------------------------------
\* GoogleDriveService.transferFiles
\* ------------------------------------------------------------------------
\* transferFiles(sessionId, fileTransfers) called with the rows of a session,
\* as startTransfer calls it, outside a request
transferFiles(sid) ==
    /\ sid \in DOMAIN sessions
    /\ Len(runs) < MaxRuns
    /\ runs' = Append(runs, NewRun(sid, "direct"))
    /\ UNCHANGED <<drive, now, users, sessions, files, nextSession, nextFile,
                   remoteLog, res, scenario>>

\* the continuation of the setImmediate callback of startTransfer once
\* transferFiles has settled: the session's final status
Settled(r, state, status) ==
    /\ runs' = [runs EXCEPT ![r].state = state]
    /\ sessions' = IF runs[r].origin = "background"
                   THEN TransferSessionUpdateStatus(
                            sessions, runs[r].sessionId, status)
                   ELSE sessions

\* the catch block of the loop body: the `failed` write for the row. The
\* write is outside any try of the loop: when it throws (db.run rejects and
\* FileTransfer.updateStatus rethrows) the loop is left and the outer catch
\* rethrows
CatchBlock(r, row, message) ==
    \E written \in BOOLEAN :
        IF written
        THEN /\ files' = FileTransferUpdateStatus(files, row.id, "failed",
                                                  message)
             /\ runs' = [runs EXCEPT ![r].idx = @ + 1, ![r].pc = "mark"]
             /\ UNCHANGED sessions
        ELSE /\ Settled(r, "rejected", "failed")
             /\ UNCHANGED files

\* a transferFiles that marks every row it was given at once, without
\* waiting for the row before
transferFilesAllAtOnce(r) ==
    /\ r \in 1..Len(runs)
    /\ runs[r].state = "running"
    /\ files' = [f \in DOMAIN files |->
                    IF \E k \in 1..Len(runs[r].rows) : runs[r].rows[k].id = f
                    THEN [files[f] EXCEPT !.status = "transferring",
                                          !.started = TRUE]
                    ELSE files[f]]
    /\ runs' = [runs EXCEPT ![r].state = "resolved"]
    /\ UNCHANGED <<drive, now, users, sessions, nextSession, nextFile,
                   remoteLog, res, scenario>>

\* a transferFiles whose status write selects the rows by google_file_id
transferFilesByGoogleFileId(r) ==
    /\ r \in 1..Len(runs)
    /\ runs[r].state = "running"
    /\ LET run == runs[r]
       IN IF run.idx > Len(run.rows)
          THEN /\ runs' = [runs EXCEPT ![r].state = "resolved"]
               /\ UNCHANGED files
          ELSE /\ files' = [f \in DOMAIN files |->
                               IF files[f].googleFileId =
                                      run.rows[run.idx].googleFileId
                               THEN [files[f] EXCEPT !.status = "failed",
                                                     !.retryCount = @ + 1]
                               ELSE files[f]]
               /\ runs' = [runs EXCEPT ![r].idx = @ + 1]
    /\ UNCHANGED <<drive, now, users, sessions, nextSession, nextFile,
                   remoteLog, res, scenario>>

\* one step of a running transferFiles: the loop's exit, the `transferring`
\* write of the next row, or its transfer and the write of the outcome
transferFilesStep(r) ==
    /\ r \in 1..Len(runs)
    /\ runs[r].state = "running"
    /\ LET run == runs[r]
       IN IF run.idx > Len(run.rows)
          THEN /\ Settled(r, "resolved", "completed")
               /\ UNCHANGED <<files, remoteLog>>
          ELSE LET row == run.rows[run.idx]
               IN IF ~RowHasUpdateStatus
                  THEN \* TypeError in the try block, and again in the catch
                       \* block: the loop is left, the outer catch rethrows
                       /\ Settled(r, "rejected", "failed")
                       /\ UNCHANGED <<files, remoteLog>>
                  ELSE IF run.pc = "mark"
                  THEN /\ \E written \in BOOLEAN :
                            IF written
                            THEN /\ files' = FileTransferUpdateStatus(
                                                 files, row.id, "transferring",
                                                 NoMessage)
                                 /\ runs' = [runs EXCEPT ![r].pc = "transfer"]
                                 /\ UNCHANGED sessions
                            ELSE CatchBlock(r, row, "database error")
                       /\ UNCHANGED remoteLog
                  ELSE IF \/ row.originalOwnerId \notin users
                          \/ row.newOwnerId \notin users
                  THEN /\ CatchBlock(r, row, "User not found")
                       /\ UNCHANGED remoteLog
                  ELSE /\ remoteLog' = Append(remoteLog,
                                              [run |-> r, file |-> row.id])
                       /\ IF ~RemoteSucceeds(row.googleFileId)
                          THEN CatchBlock(r, row, "provider error")
                          ELSE \E written \in BOOLEAN :
                                  IF written
                                  THEN /\ files' = FileTransferUpdateStatus(
                                                       files, row.id,
                                                       "completed", NoMessage)
                                       /\ runs' = [runs EXCEPT
                                                      ![r].idx = @ + 1,
                                                      ![r].pc = "mark"]
                                       /\ UNCHANGED sessions
                                  ELSE CatchBlock(r, row, "database error")
    /\ UNCHANGED <<drive, now, users, nextSession, nextFile, res, scenario>>

\* ------------------------------------------------------------------------
\* FileTransfer.updateStatus called on its own
\* ------------------------------------------------------------------------
\* the statuses the file_transfers CHECK constraint admits
FileStatuses == {"pending", "transferring", "completed", "failed", "skipped"}

ErrorMessages == {"provider error"}

updateStatus(id, status, errorMessage) ==
    /\ id \in DOMAIN files
    /\ status = "failed" => files[id].retryCount < MaxRetries
    /\ files' = FileTransferUpdateStatus(
                    files, id, status,
                    IF status = "failed" THEN errorMessage ELSE NoMessage)
    /\ UNCHANGED <<drive, now, users, sessions, nextSession, nextFile, runs,
                   remoteLog, res, scenario>>

\* ------------------------------------------------------------------------
\* TransferSession.updateStatus called on its own
\* ------------------------------------------------------------------------
\* the statuses the transfer_sessions CHECK constraint admits
SessionStatuses ==
    {"pending", "authenticated", "file_selected", "transferring",
     "completed", "failed", "cancelled"}

updateSessionStatus(id, status) ==
    /\ id \in DOMAIN sessions
    /\ sessions' = TransferSessionUpdateStatus(sessions, id, status)
    /\ UNCHANGED <<drive, now, users, files, nextSession, nextFile, runs,
                   remoteLog, res, scenario>>

\* ------------------------------------------------------------------------
\* TransferSession.deleteExpired
\* ------------------------------------------------------------------------
\* DELETE FROM transfer_sessions WHERE expires_at < datetime('now');
\* file_transfers.session_id ... ON DELETE CASCADE
deleteExpired ==
    LET gone == {i \in DOMAIN sessions :
                    TextLess(ToISOString(sessions[i].expiresAt),
                             DatetimeNow(now))}
    IN /\ sessions' = [i \in DOMAIN sessions \ gone |-> sessions[i]]
       /\ files' = [f \in {g \in DOMAIN files : files[g].sessionId \notin gone}
                       |-> files[f]]
       /\ res' = Response("expire", 0, 0, 0)
       /\ UNCHANGED <<drive, now, users, nextSession, nextFile, runs, remoteLog,
                      scenario>>

\* ------------------------------------------------------------------------
\* DriveService.batchTransferOwnership, DriveService.transferOwnership,
\* GoogleDriveService.transferFileOwnership: the calls
\* ------------------------------------------------------------------------
\* grants: what the Drive files carry when the call is made
batchTransferOwnership(fileList, newOwnerEmail, grants) ==
    /\ drive.pc = "idle"
    /\ drive' = [drive EXCEPT
                    !.fn = "batchTransferOwnership",
                    !.files = fileList, !.i = 1,
                    !.newOwnerEmail = newOwnerEmail, !.perms = grants,
                    !.pc = IF fileList = << >> THEN "returned" ELSE "list",
                    !.outcome = IF fileList = << >> THEN "resolved"
                                ELSE "none"]
    /\ UNCHANGED <<now, users, sessions, files, nextSession, nextFile, runs,
                   remoteLog, res, scenario>>

transferOwnership(fileId, newOwnerEmail, grants) ==
    /\ drive.pc = "idle"
    /\ drive' = [drive EXCEPT
                    !.fn = "transferOwnership",
                    !.files = <<fileId>>, !.i = 1,
                    !.newOwnerEmail = newOwnerEmail, !.perms = grants,
                    !.pc = "list"]
    /\ UNCHANGED <<now, users, sessions, files, nextSession, nextFile, runs,
                   remoteLog, res, scenario>>

transferFileOwnership(fileId, newOwnerEmail, grants) ==
    /\ drive.pc = "idle"
    /\ drive' = [drive EXCEPT
                    !.fn = "transferFileOwnership",
                    !.files = <<fileId>>, !.i = 1,
                    !.newOwnerEmail = newOwnerEmail, !.perms = grants,
                    !.pc = "createWriter"]
    /\ UNCHANGED <<now, users, sessions, files, nextSession, nextFile, runs,
                   remoteLog, res, scenario>>

\* ------------------------------------------------------------------------
\* The permission requests of a per-file transfer, one step per await; ok
\* is Drive's answer
\* ------------------------------------------------------------------------
\* transferOwnership without the `p.type === 'user'` test
permissionsListAnyType(ok) ==
    /\ drive.pc = "list"
    /\ LET d == [drive EXCEPT !.calls = Append(@, Call(drive, "list", "none",
                                                       0, ok))]
           found == FindAnyType(d.perms[CurrentFile(d)], d.newOwnerEmail)
       IN drive' =
            IF ~ok THEN Settle(d, FALSE, FailedToTransfer("list"))
            ELSE IF found = {} THEN [d EXCEPT !.pc = "create"]
            ELSE [d EXCEPT !.pc = "update",
                           !.newOwnerPermission =
                               (CHOOSE p \in found : TRUE).id]
    /\ UNCHANGED <<now, users, sessions, files, nextSession, nextFile, runs,
                   remoteLog, res, scenario>>

\* transferOwnership: permissions.list, then the search for the new
\* owner's user grant
permissionsList(ok) ==
    /\ drive.pc = "list"
    /\ LET d == [drive EXCEPT !.calls = Append(@, Call(drive, "list", "none",
                                                       0, ok))]
           found == FindUserGrant(d.perms[CurrentFile(d)], d.newOwnerEmail)
       IN drive' =
            IF ~ok THEN Settle(d, FALSE, FailedToTransfer("list"))
            ELSE IF found = {} THEN [d EXCEPT !.pc = "create"]
            ELSE [d EXCEPT !.pc = "update",
                           !.newOwnerPermission =
                               (CHOOSE p \in found : TRUE).id]
    /\ UNCHANGED <<now, users, sessions, files, nextSession, nextFile, runs,
                   remoteLog, res, scenario>>

\* Drive's permissions.create: a grantee that holds a grant keeps that one
\* (raised to the requested role), another gets a new grant
Created(grants, newOwnerEmail, role) ==
    IF FindUserGrant(grants, newOwnerEmail) = {}
    THEN grants \cup {Grant(NewPermissionId(grants), newOwnerEmail, "user",
                            role)}
    ELSE {IF p \in FindUserGrant(grants, newOwnerEmail)
          THEN [p EXCEPT !.role = role] ELSE p : p \in grants}

\* Drive's permissions.update with transferOwnership: true
Updated(grants, permissionId) ==
    {IF p.id = permissionId THEN [p EXCEPT !.role = "owner"] ELSE p :
        p \in grants}

\* transferOwnership: permissions.create of the writer grant;
\* transferFileOwnership: permissions.create of the writer grant, then
\* permissions.create of the owner grant
permissionsCreate(ok) ==
    /\ drive.pc \in {"create", "createWriter", "createOwner"}
    /\ LET f == CurrentFile(drive)
           role == IF drive.pc = "createOwner" THEN "owner" ELSE "writer"
           d == [drive EXCEPT !.calls = Append(@, Call(drive, "create", role,
                                                       0, ok))]
           granted == [d EXCEPT !.perms[f] =
                                   Created(@, d.newOwnerEmail, role)]
       IN drive' =
            IF ~ok
            THEN Settle(d, FALSE,
                        IF d.fn = "transferOwnership"
                           \/ d.fn = "batchTransferOwnership"
                        THEN FailedToTransfer("create")
                        ELSE <<"create">>)
            ELSE IF drive.pc = "create"
            THEN [granted EXCEPT !.pc = "update",
                                 !.newOwnerPermission =
                                     UserGrantId(granted.perms[f],
                                                 d.newOwnerEmail)]
            ELSE IF drive.pc = "createWriter"
            THEN [granted EXCEPT !.pc = "createOwner"]
            ELSE Settle(granted, TRUE, NoMessage)
    /\ UNCHANGED <<now, users, sessions, files, nextSession, nextFile, runs,
                   remoteLog, res, scenario>>

\* transferOwnership: permissions.update of newOwnerPermission.id to owner
permissionsUpdate(ok) ==
    /\ drive.pc = "update"
    /\ LET f == CurrentFile(drive)
           d == [drive EXCEPT !.calls =
                     Append(@, Call(drive, "update", "owner",
                                    drive.newOwnerPermission, ok))]
       IN drive' =
            IF ~ok THEN Settle(d, FALSE, FailedToTransfer("update"))
            ELSE Settle([d EXCEPT !.perms[f] =
                                     Updated(@, d.newOwnerPermission)],
                        TRUE, NoMessage)
    /\ UNCHANGED <<now, users, sessions, files, nextSession, nextFile, runs,
                   remoteLog, res, scenario>>

\* ------------------------------------------------------------------------
\* Specification
\* ------------------------------------------------------------------------
Next ==
    \/ Tick
    \/ \E u \in UserIds : UserCreate(u)
    \/ \E sender \in UserIds, receiverEmail \in UserIds, manifest \in Manifests :
          createTransferSession(sender, receiverEmail, manifest)
    \/ \E sender \in UserIds, receiverEmail \in UserIds, manifest \in Manifests,
          failAt \in 0..MaxFiles :
          createTransferSessionDbError(sender, receiverEmail, manifest, failAt)
    \/ \E sid \in SessionIds, tok \in Tokens : getTransferSession(sid, tok)
    \/ \E sid \in SessionIds, tok \in Tokens, caller \in UserIds :
          acceptTransferSession(sid, tok, caller)
    \/ \E sid \in SessionIds, tok \in Tokens, caller \in UserIds :
          rejectTransferSession(sid, tok, caller)
    \/ \E sid \in SessionIds, tok \in Tokens, caller \in UserIds :
          cancelTransferSession(sid, tok, caller)
    \/ \E sid \in SessionIds, tok \in Tokens : startTransfer(sid, tok)
    \/ \E sid \in SessionIds, tok \in Tokens : getTransferProgress(sid, tok)
    \/ \E sid \in SessionIds : transferFiles(sid)
    \/ \E r \in 1..MaxRuns : transferFilesStep(r)
    \/ deleteExpired
    \/ \E id \in 1..(MaxSessions * MaxFiles), status \in FileStatuses,
          errorMessage \in ErrorMessages :
          updateStatus(id, status, errorMessage)
    \/ \E id \in SessionIds, status \in SessionStatuses :
          updateSessionStatus(id, status)
    \/ \E fileList \in FileLists, newOwnerEmail \in UserIds,
          grants \in [GoogleFileIds -> ExistingGrants] :
          batchTransferOwnership(fileList, newOwnerEmail, grants)
    \/ \E fileId \in GoogleFileIds, newOwnerEmail \in UserIds,
          grants \in [GoogleFileIds -> ExistingGrants] :
          \/ transferOwnership(fileId, newOwnerEmail, grants)
          \/ transferFileOwnership(fileId, newOwnerEmail, grants)
    \/ \E ok \in BOOLEAN :
          \/ permissionsList(ok)
          \/ permissionsCreate(ok)
          \/ permissionsUpdate(ok)

Spec == Init /\ [][Next]_vars

\* ------------------------------------------------------------------------
\* The session lifecycle on its own: every user has authenticated, the
\* clock stands still (no session expires), user 1 sends one-file manifests
\* ------------------------------------------------------------------------
InitRegistered ==
    /\ now = 0
    /\ users = UserIds
    /\ sessions = << >>
    /\ files = << >>
    /\ nextSession = 0
    /\ nextFile = 0
    /\ runs = << >>
    /\ remoteLog = << >>
    /\ res = Response("none", 0, 0, 0)
    /\ scenario = [s \in SessionIds |-> 0]
    /\ drive = DriveIdle

NextLifecycle ==
    \/ \E receiverEmail \in UserIds :
          /\ nextSession < MaxScenario
          /\ createTransferSession(1, receiverEmail, <<1>>)
    \/ \E sid \in SessionIds, tok \in Tokens, caller \in UserIds :
          acceptTransferSession(sid, tok, caller)
    \/ \E sid \in SessionIds, tok \in Tokens, caller \in UserIds :
          rejectTransferSession(sid, tok, caller)
    \/ \E sid \in SessionIds, tok \in Tokens, caller \in UserIds :
          cancelTransferSession(sid, tok, caller)
    \/ \E sid \in SessionIds, tok \in Tokens : startTransfer(sid, tok)
    \/ \E sid \in SessionIds :
          /\ Len(runs) < MaxScenario
          /\ transferFiles(sid)
    \/ \E r \in 1..MaxRuns : transferFilesStep(r)

SpecLifecycle == InitRegistered /\ [][NextLifecycle]_vars

\* ------------------------------------------------------------------------
\* The batch on its own: user 1 sends to user 2, any manifest, user 2
\* accepts, no cancellation, the clock stands still
\* ------------------------------------------------------------------------
NextBatch ==
    \/ \E manifest \in Manifests :
          /\ nextSession < MaxScenario
          /\ createTransferSession(1, 2, manifest)
    \/ \E sid \in SessionIds, tok \in Tokens :
          acceptTransferSession(sid, tok, 2)
    \/ \E sid \in SessionIds, tok \in Tokens : startTransfer(sid, tok)
    \/ \E sid \in SessionIds, tok \in Tokens : getTransferProgress(sid, tok)
    \/ \E sid \in SessionIds :
          /\ Len(runs) < MaxScenario
          /\ transferFiles(sid)
    \/ \E r \in 1..MaxRuns : transferFilesStep(r)

SpecBatch == InitRegistered /\ [][NextBatch]_vars

\* ------------------------------------------------------------------------
\* Session creation on its own: users authenticate one after the other,
\* user 1 sends manifests of distinct Drive files, in any order, to any user
\* id, registered or not
\* ------------------------------------------------------------------------
DistinctManifests ==
    {m \in Manifests : \A i, j \in 1..Len(m) : m[i] = m[j] => i = j}

NextCreate ==
    \/ \E u \in UserIds : UserCreate(u)
    \/ \E receiverEmail \in UserIds, manifest \in DistinctManifests :
          createTransferSession(1, receiverEmail, manifest)

SpecCreate == Init /\ [][NextCreate]_vars

\* ------------------------------------------------------------------------
\* Expiry on its own: every user has authenticated, user 1 sends a one-file
\* manifest to user 2, time passes, every request that takes a token is
\* made, expired sessions are swept
\* ------------------------------------------------------------------------
NextExpiry ==
    \/ Tick
    \/ /\ nextSession < MaxScenario
       /\ createTransferSession(1, 2, <<1>>)
    \/ \E sid \in SessionIds, tok \in Tokens : getTransferSession(sid, tok)
    \/ \E sid \in SessionIds, tok \in Tokens, caller \in UserIds :
          acceptTransferSession(sid, tok, caller)
    \/ \E sid \in SessionIds, tok \in Tokens, caller \in UserIds :
          rejectTransferSession(sid, tok, caller)
    \/ \E sid \in SessionIds, tok \in Tokens, caller \in UserIds :
          cancelTransferSession(sid, tok, caller)
    \/ \E sid \in SessionIds, tok \in Tokens : startTransfer(sid, tok)
    \/ \E sid \in SessionIds, tok \in Tokens : getTransferProgress(sid, tok)
    \/ deleteExpired

SpecExpiry == InitRegistered /\ [][NextExpiry]_vars

\* ------------------------------------------------------------------------
\* The sweep on its own: every user has authenticated, user 1 sends
\* one-file manifests to any user at any time, time passes, expired sessions
\* are swept
\* ------------------------------------------------------------------------
NextSweep ==
    \/ Tick
    \/ \E receiverEmail \in UserIds :
          createTransferSession(1, receiverEmail, <<1>>)
    \/ deleteExpired

SpecSweep == InitRegistered /\ [][NextSweep]_vars

\* ------------------------------------------------------------------------
\* The Drive services on their own: one call of an ownership transfer for
\* user 2 as the new owner, on files with any of the existing grants, and
\* Drive answering each request with success or with an error
\* ------------------------------------------------------------------------
NextDrive ==
    \/ \E fileList \in FileLists, grants \in [GoogleFileIds -> ExistingGrants] :
          batchTransferOwnership(fileList, 2, grants)
    \/ \E fileId \in GoogleFileIds, grants \in [GoogleFileIds -> ExistingGrants] :
          transferOwnership(fileId, 2, grants)
    \/ \E fileId \in GoogleFileIds, grants \in [GoogleFileIds -> ExistingGrants] :
          transferFileOwnership(fileId, 2, grants)
    \/ \E ok \in BOOLEAN : permissionsList(ok)
    \/ \E ok \in BOOLEAN : permissionsCreate(ok)
    \/ \E ok \in BOOLEAN : permissionsUpdate(ok)

SpecDrive == Init /\ [][NextDrive]_vars

\* ------------------------------------------------------------------------
\* Batches of several sessions: every user has authenticated, user 1 sends
\* manifests of distinct Drive files to user 2, and transferFiles is called
\* with the rows of any session, as startTransfer calls it, at any time
\* ------------------------------------------------------------------------
NextConcurrent ==
    \/ \E manifest \in DistinctManifests :
          createTransferSession(1, 2, manifest)
    \/ \E sid \in SessionIds : transferFiles(sid)
    \/ \E r \in 1..MaxRuns : transferFilesStep(r)

SpecConcurrent == InitRegistered /\ [][NextConcurrent]_vars

\* ------------------------------------------------------------------------
\* The status writes of file transfers: every user has authenticated, user
\* 1 sends the manifest of files 1 and 2 to user 2 once, FileTransfer.
\* updateStatus is called with any row and any status, and transferFiles
\* with the rows of the session
\* ------------------------------------------------------------------------
NextFileStatus ==
    \/ /\ nextSession = 0
       /\ createTransferSession(1, 2, <<1, 2>>)
    \/ \E id \in 1..(MaxSessions * MaxFiles), status \in FileStatuses,
          errorMessage \in ErrorMessages :
          updateStatus(id, status, errorMessage)
    \/ \E sid \in SessionIds :
          /\ Len(runs) < MaxScenario
          /\ transferFiles(sid)
    \/ \E r \in 1..MaxRuns : transferFilesStep(r)

SpecFileStatus == InitRegistered /\ [][NextFileStatus]_vars

\* ------------------------------------------------------------------------
\* Everything that acts on a session after its creation: every user has
\* authenticated, user 1 sends file 1 to user 2 once, every request that
\* takes the token is made for the session with its token by anyone,
\* transferFiles is called with the session's rows, and the two
\* updateStatus methods are called with any status
\* ------------------------------------------------------------------------
NextFrame ==
    \/ /\ nextSession = 0
       /\ createTransferSession(1, 2, <<1>>)
    \/ \E sid \in DOMAIN sessions, caller \in UserIds :
          acceptTransferSession(sid, SessionTokenOf(sid), caller)
    \/ \E sid \in DOMAIN sessions, caller \in UserIds :
          rejectTransferSession(sid, SessionTokenOf(sid), caller)
    \/ \E sid \in DOMAIN sessions, caller \in UserIds :
          cancelTransferSession(sid, SessionTokenOf(sid), caller)
    \/ \E sid \in DOMAIN sessions : startTransfer(sid, SessionTokenOf(sid))
    \/ \E sid \in DOMAIN sessions :
          getTransferProgress(sid, SessionTokenOf(sid))
    \/ \E sid \in DOMAIN sessions :
          /\ Len(runs) < MaxScenario
          /\ transferFiles(sid)
    \/ \E r \in 1..MaxRuns : transferFilesStep(r)
    \/ \E id \in DOMAIN files, status \in FileStatuses,
          errorMessage \in ErrorMessages :
          updateStatus(id, status, errorMessage)
    \/ \E id \in DOMAIN sessions, status \in SessionStatuses :
          updateSessionStatus(id, status)

SpecFrame == InitRegistered /\ [][NextFrame]_vars

\* ------------------------------------------------------------------------
\* Requests with any pairing of session id and token: every user has
\* authenticated, user 1 sends file 1 to any user, several times, and every
\* request that changes a session is made with any id, any token, by anyone
\* ------------------------------------------------------------------------
NextTokens ==
    \/ \E receiverEmail \in UserIds :
          createTransferSession(1, receiverEmail, <<1>>)
    \/ \E sid \in SessionIds, tok \in Tokens, caller \in UserIds :
          acceptTransferSession(sid, tok, caller)
    \/ \E sid \in SessionIds, tok \in Tokens, caller \in UserIds :
          rejectTransferSession(sid, tok, caller)
    \/ \E sid \in SessionIds, tok \in Tokens, caller \in UserIds :
          cancelTransferSession(sid, tok, caller)
    \/ \E sid \in SessionIds, tok \in Tokens : startTransfer(sid, tok)

SpecTokens == InitRegistered /\ [][NextTokens]_vars

\* ------------------------------------------------------------------------
\* Session creation with a database that can reject a statement: every
\* user has authenticated, user 1 sends manifests of distinct Drive files to
\* user 2
\* ------------------------------------------------------------------------
NextCreateDbError ==
    \/ \E manifest \in DistinctManifests :
          createTransferSession(1, 2, manifest)
    \/ \E manifest \in DistinctManifests, failAt \in 0..MaxFiles :
          createTransferSessionDbError(1, 2, manifest, failAt)

SpecCreateDbError == InitRegistered /\ [][NextCreateDbError]_vars

\* ------------------------------------------------------------------------
\* Claims
\* ------------------------------------------------------------------------
StatusEdges ==
    {<<"pending", "authenticated">>, <<"authenticated", "transferring">>,
     <<"transferring", "completed">>, <<"transferring", "failed">>,
     <<"pending", "cancelled">>, <<"authenticated", "cancelled">>}

C2_StartNeedsAuthenticated ==
    [][\A sid \in SessionIds, tok \in Tokens :
          ( /\ res'.op = "start" /\ res'.sid = sid
            /\ NamesSession(sid, tok)
            /\ sessions[sid].status # "authenticated"
            /\ startTransfer(sid, tok) )
          => /\ res'.code # 200
             /\ sessions' = sessions
             /\ files' = files
             /\ runs' = runs
      ]_vars

\* start was requested for a pending session that no accept was requested
\* for; it was refused, no run exists, every file transfer is pending
C2_Witness ==
    \E s \in DOMAIN sessions :
        /\ scenario[s] = 0
        /\ res.op = "start" /\ res.sid = s /\ res.code # 200
        /\ sessions[s].status = "pending"
        /\ runs = << >>
        /\ \A f \in DOMAIN files : files[f].status = "pending"

\* C3: an accept request by a caller who is not the session's receiver is
\* answered with a failure and changes no session; a session becomes
\* authenticated only from pending and only in an accept request of its
\* receiver.
C3_AcceptOnlyByReceiver ==
    [][/\ \A sid \in SessionIds, tok \in Tokens, caller \in UserIds :
            ( /\ res'.op = "accept" /\ res'.sid = sid
              /\ NamesSession(sid, tok)
              /\ sessions[sid].receiverUserId # caller
              /\ acceptTransferSession(sid, tok, caller) )
            => (res'.code # 200 /\ sessions' = sessions)
       /\ \A s \in DOMAIN sessions \cap DOMAIN sessions' :
            ( /\ sessions'[s].status = "authenticated"
              /\ sessions[s].status # "authenticated" )
            => /\ sessions[s].status = "pending"
               /\ \E tok \in Tokens :
                     acceptTransferSession(s, tok, sessions[s].receiverUserId)
      ]_vars

\* accept was requested for a pending session by a user who is not its
\* receiver and was refused
C3_Witness ==
    \E s \in DOMAIN sessions :
        /\ res.op = "accept" /\ res.sid = s /\ res.code # 200
        /\ res.caller # sessions[s].receiverUserId
        /\ sessions[s].status = "pending"

\* the file transfers of session s
FilesOf(s) == {f \in DOMAIN files : files[f].sessionId = s}

\* no run of transferFiles for session s is under way
NoRunUnderWay(s) ==
    \A r \in 1..Len(runs) :
        runs[r].sessionId = s => runs[r].state # "running"

\* the number of calls of transferFileOwnership run r made for file transfer f
RemoteCalls(r, f) ==
    Cardinality({k \in 1..Len(remoteLog) :
                    remoteLog[k].run = r /\ remoteLog[k].file = f})

\* C5: a session has one file transfer per manifest entry, and once a batch
\* run over the session's rows (the run startTransfer launches) has
\* finished, every file transfer of the session is completed or failed: none
\* is pending or transferring.
C5_FinishedBatchLeavesNoneOpen ==
    \A s \in DOMAIN sessions :
        /\ Cardinality(FilesOf(s)) = Len(sessions[s].metadata)
        /\ \A r \in 1..Len(runs) :
              (runs[r].sessionId = s /\ runs[r].state # "running")
              => \A f \in FilesOf(s) :
                    files[f].status \in {"completed", "failed"}

\* C6: when a batch run has finished, every row it was given was attempted;
\* a row whose Drive call succeeds is completed, a row whose Drive call
\* throws is failed with the error text stored and retryCount raised by one
\* (from 0, in a first run), whatever happened to the rows before it.
C6_FailureOfOneFileIsIsolated ==
    \A r \in 1..Len(runs) :
        runs[r].state # "running"
        => \A k \in 1..Len(runs[r].rows) :
              LET row == runs[r].rows[k]
              IN row.id \in DOMAIN files
                 => /\ RemoteCalls(r, row.id) >= 1
                    /\ IF RemoteSucceeds(row.googleFileId)
                       THEN files[row.id].status = "completed"
                       ELSE /\ files[row.id].status = "failed"
                            /\ files[row.id].errorMessage # NoMessage
                            /\ files[row.id].retryCount >= 1

\* C7: when a batch run has finished, it has called transferFileOwnership
\* exactly once for every row it was given.
C7_EachFileAttemptedOnce ==
    \A r \in 1..Len(runs) :
        runs[r].state # "running"
        => \A k \in 1..Len(runs[r].rows) :
              RemoteCalls(r, runs[r].rows[k].id) = 1

\* C8: a session is created, its receiver calls accept, start is called,
\* and the Drive call succeeds for every file of the manifest: once no run
\* is under way the session is completed, every file transfer is completed,
\* and a progress request is answered with completed = total and failed,
\* pending and transferring 0.
C8_AllSucceedEndsCompleted ==
    \A s \in DOMAIN sessions :
        ( /\ scenario[s] = 2
          /\ \A k \in 1..Len(sessions[s].metadata) :
                RemoteSucceeds(sessions[s].metadata[k])
          /\ NoRunUnderWay(s) )
        => /\ sessions[s].status = "completed"
           /\ \A f \in FilesOf(s) : files[f].status = "completed"
           /\ (res.op = "progress" /\ res.sid = s)
              => /\ res.code = 200
                 /\ res.progress =
                       [total |-> Len(sessions[s].metadata),
                        completed |-> Len(sessions[s].metadata),
                        failed |-> 0, pending |-> 0, transferring |-> 0]

\* C9: a session is created, its receiver calls accept, start is called,
\* and the Drive call succeeds for some files of the manifest and throws for
\* others: once no run is under way the session is completed, each file
\* transfer is completed or failed as its Drive call went, and a progress
\* request is answered with these outcomes.
C9_PartialSuccessEndsCompleted ==
    \A s \in DOMAIN sessions :
        ( /\ scenario[s] = 2
          /\ \E k \in 1..Len(sessions[s].metadata) :
                RemoteSucceeds(sessions[s].metadata[k])
          /\ \E k \in 1..Len(sessions[s].metadata) :
                ~RemoteSucceeds(sessions[s].metadata[k])
          /\ NoRunUnderWay(s) )
        => /\ sessions[s].status = "completed"
           /\ \A f \in FilesOf(s) :
                 files[f].status =
                    IF RemoteSucceeds(files[f].googleFileId)
                    THEN "completed" ELSE "failed"
           /\ (res.op = "progress" /\ res.sid = s)
              => (res.code = 200 /\ res.progress = Progress(s))

\* C11: a status write that fails during a batch run does not end the run:
\* whatever writes failed on the way, a run that has finished has gone
\* through every row it was given.
C11_FailedWriteDoesNotAbort ==
    \A r \in 1..Len(runs) :
        runs[r].state # "running" => runs[r].idx > Len(runs[r].rows)

C13_UnknownReceiverPersistsNothing ==
    [][res'.op = "create"
       => \A receiverEmail \in UserIds \ users, manifest \in Manifests :
             createTransferSession(res'.caller, receiverEmail, manifest)
             => /\ res'.code # 200
                /\ sessions' = sessions
                /\ files' = files
      ]_vars

\* a create request with a non-empty manifest was refused because its
\* receiver is not registered
C13_Witness ==
    /\ res.op = "create" /\ res.code = 404
    /\ users # UserIds

C15_CreateInsertsSessionAndFiles ==
    [][(res'.op = "create" /\ res'.code = 200)
       => \A receiverEmail \in UserIds, manifest \in Manifests :
          createTransferSession(res'.caller, receiverEmail, manifest)
          => LET sid == res'.sid
                 sender == res'.caller
                 new == DOMAIN files' \ DOMAIN files
                 ids == SortedSeq(new)
             IN /\ sid \notin DOMAIN sessions
                /\ DOMAIN sessions' = DOMAIN sessions \cup {sid}
                /\ sessions'[sid].status = "pending"
                /\ sessions'[sid].senderUserId = sender
                /\ sessions'[sid].receiverUserId = receiverEmail
                /\ \A i \in DOMAIN sessions :
                      /\ sessions'[i] = sessions[i]
                      /\ sessions[i].sessionToken # sessions'[sid].sessionToken
                /\ DOMAIN files \subseteq DOMAIN files'
                /\ \A f \in DOMAIN files : files'[f] = files[f]
                /\ Len(ids) = Len(manifest)
                /\ \A k \in 1..Len(ids) :
                      /\ files'[ids[k]].sessionId = sid
                      /\ files'[ids[k]].googleFileId = manifest[k]
                      /\ files'[ids[k]].status = "pending"
                      /\ files'[ids[k]].originalOwnerId = sender
                      /\ files'[ids[k]].newOwnerId = receiverEmail
      ]_vars

\* a second session, of two different Drive files, was created next to the
\* first
C15_Witness ==
    /\ res.op = "create" /\ res.code = 200
    /\ Cardinality(DOMAIN sessions) = 2
    /\ \E f, g \in DOMAIN files :
          /\ files[f].sessionId = res.sid
          /\ files[g].sessionId = res.sid
          /\ files[f].googleFileId # files[g].googleFileId

\* C17: a cancel request for a session, named by its id and token, by a
\* caller who is neither its sender nor its receiver is answered with a
\* failure and leaves the session's status as it is; by its sender or its
\* receiver, for a pending or authenticated session, it is answered with
\* success and sets the status to cancelled.
C17_CancelBySenderOrReceiver ==
    [][res'.op = "cancel"
       => \A tok \in Tokens :
             LET sid == res'.sid
                 caller == res'.caller
             IN ( /\ NamesSession(sid, tok)
                  /\ cancelTransferSession(sid, tok, caller) )
                => IF caller \in {sessions[sid].senderUserId,
                                  sessions[sid].receiverUserId}
                   THEN sessions[sid].status \in {"pending", "authenticated"}
                        => /\ res'.code = 200
                           /\ sessions'[sid].status = "cancelled"
                   ELSE /\ res'.code # 200
                        /\ sessions'[sid].status = sessions[sid].status
      ]_vars

ResponseCodes == {200, 400, 404, 500}

C19_ExpiredSessionIsNotFound ==
    [][\A tok \in Tokens :
          LET sid == res'.sid
              caller == res'.caller
          IN ( /\ sid \in DOMAIN sessions
               /\ sessions[sid].sessionToken = tok
               /\ sessions[sid].expiresAt <= now
               /\ \/ getTransferSession(sid, tok)
                  \/ acceptTransferSession(sid, tok, caller)
                  \/ rejectTransferSession(sid, tok, caller)
                  \/ cancelTransferSession(sid, tok, caller)
                  \/ startTransfer(sid, tok)
                  \/ getTransferProgress(sid, tok) )
             => /\ res'.code = 404
                /\ sessions' = sessions
                /\ files' = files
                /\ runs' = runs
      ]_vars

\* C21: a sweep removes exactly the sessions whose expiresAt is before now,
\* together with all of their file transfers, and leaves every other
\* session and file transfer as it is; afterwards every file transfer
\* belongs to a session of the table.
C21_SweepRemovesExactlyTheExpired ==
    [][(res'.op = "expire" /\ deleteExpired)
       => /\ DOMAIN sessions' =
                {i \in DOMAIN sessions : ~(sessions[i].expiresAt < now)}
          /\ \A i \in DOMAIN sessions' : sessions'[i] = sessions[i]
          /\ DOMAIN files' =
                {f \in DOMAIN files : files[f].sessionId \in DOMAIN sessions'}
          /\ \A f \in DOMAIN files' : files'[f] = files[f]
      ]_vars

\* ------------------------------------------------------------------------
\* C22
\* ------------------------------------------------------------------------
Resolved(inv) == inv.outcome = "resolved"

Rejected(inv) == inv.outcome = "rejected"

\* the results array that the settled calls of transferOwnership call for
ResultsFor(invs) ==
    LET sel == SelectSeq(invs, Resolved)
    IN [k \in 1..Len(sel) |-> [fileId |-> sel[k].fileId, status |-> "success"]]

\* the errors array that the settled calls of transferOwnership call for
ErrorsFor(invs) ==
    LET sel == SelectSeq(invs, Rejected)
    IN [k \in 1..Len(sel) |-> [fileId |-> sel[k].fileId, status |-> "failed",
                               error |-> sel[k].message]]

\* C22: batchTransferOwnership calls transferOwnership once per input file
\* in input order and never throws; every settled call is in results (status
\* success) when it resolved and in errors (status failed, with the error
\* message) when it rejected, so on return |results| + |errors| = |files|,
\* and a rejection does not keep the later files from being attempted
C22_BatchAttemptsEveryFileOnce ==
    drive.fn = "batchTransferOwnership" =>
        LET n == Len(drive.invocations)
        IN /\ drive.pc # "thrown"
           /\ drive.outcome # "rejected"
           /\ n <= Len(drive.files)
           /\ \A k \in 1..n : drive.invocations[k].fileId = drive.files[k]
           /\ \A c \in 1..Len(drive.calls) :
                 /\ drive.calls[c].inv <= Len(drive.files)
                 /\ drive.calls[c].fileId = drive.files[drive.calls[c].inv]
           /\ drive.results = ResultsFor(drive.invocations)
           /\ drive.errors = ErrorsFor(drive.invocations)
           /\ drive.pc = "returned" =>
                 /\ n = Len(drive.files)
                 /\ Len(drive.results) + Len(drive.errors) = Len(drive.files)

C22_Witness ==
    /\ drive.fn = "batchTransferOwnership"
    /\ drive.pc = "returned"
    /\ Len(drive.invocations) = 2
    /\ drive.invocations[1].outcome = "rejected"
    /\ drive.invocations[2].outcome = "resolved"
    /\ Len(drive.results) = 1
    /\ Len(drive.errors) = 1

\* ------------------------------------------------------------------------
\* C23
\* ------------------------------------------------------------------------
\* C23: in a per-file ownership transfer the writer grant is created only
\* when the new owner holds no user grant on the file, the promotion to
\* owner is issued only when the grant exists and names that grant, and
\* after a failed request the transfer issues no further request and is
\* reported as failed
C23_GrantThenPromote ==
    \A c \in 1..Len(drive.calls) :
        LET call == drive.calls[c]
        IN /\ (call.api = "create" /\ call.role = "writer") => call.grant = 0
           /\ call.role = "owner" =>
                 /\ call.grant # 0
                 /\ call.api = "update" => call.permissionId = call.grant
           /\ ~call.ok =>
                 /\ \A c2 \in (c + 1)..Len(drive.calls) :
                       drive.calls[c2].inv # call.inv
                 /\ Len(drive.invocations) >= call.inv
                 /\ drive.invocations[call.inv].outcome = "rejected"

\* ------------------------------------------------------------------------
\* C26
\* ------------------------------------------------------------------------
Transferring(s) == {f \in FilesOf(s) : files[f].status = "transferring"}

AsCreated(tbl) ==
    [f \in DOMAIN tbl |->
        [tbl[f] EXCEPT !.status = "pending", !.started = FALSE,
                       !.completed = FALSE, !.errorMessage = NoMessage,
                       !.retryCount = 0]]

\* the table a run of transferFiles over rows k.. leaves when it runs alone
\* and every write reaches the database
RECURSIVE BatchAlone(_, _, _)
BatchAlone(tbl, rows, k) ==
    IF k > Len(rows) \/ ~RowHasUpdateStatus THEN tbl
    ELSE LET row == rows[k]
             marked == FileTransferUpdateStatus(tbl, row.id, "transferring",
                                                NoMessage)
         IN BatchAlone(
                IF \/ row.originalOwnerId \notin users
                   \/ row.newOwnerId \notin users
                THEN FileTransferUpdateStatus(marked, row.id, "failed",
                                              "User not found")
                ELSE IF ~RemoteSucceeds(row.googleFileId)
                THEN FileTransferUpdateStatus(marked, row.id, "failed",
                                              "provider error")
                ELSE FileTransferUpdateStatus(marked, row.id, "completed",
                                              NoMessage),
                rows, k + 1)

\* run r is the only run of its session
OnlyRunOfItsSession(r) ==
    \A q \in 1..Len(runs) : runs[q].sessionId = runs[r].sessionId => q = r

SetToFailed(f) ==
    \/ \E m \in ErrorMessages : updateStatus(f, "failed", m)
    \/ \E r \in 1..Len(runs) :
          /\ transferFilesStep(r)
          /\ runs[r].idx <= Len(runs[r].rows)
          /\ runs[r].rows[runs[r].idx].id = f
          /\ files'[f] # files[f]
          /\ files'[f].status = "failed"

\* C30: a file transfer is inserted with retryCount 0, a step that sets it
\* to failed adds exactly 1 to its retryCount, and every other step leaves
\* its retryCount as it is
C30_RetryCountCountsFailures ==
    [][\A f \in DOMAIN files' :
          IF f \notin DOMAIN files
          THEN files'[f].retryCount = 0
          ELSE files'[f].retryCount =
                  files[f].retryCount + (IF SetToFailed(f) THEN 1 ELSE 0)
      ]_vars

C30_Witness ==
    \E f \in DOMAIN files :
        /\ files[f].retryCount = 2
        /\ files[f].status = "completed"

\* ------------------------------------------------------------------------
\* C31
\* ------------------------------------------------------------------------
\* C31: in every reachable state a file transfer carries an error message
\* only if its status is failed
C31_ErrorMessageOnlyWhenFailed ==
    \A f \in DOMAIN files :
        files[f].errorMessage # NoMessage => files[f].status = "failed"

\* ------------------------------------------------------------------------
\* C32
\* ------------------------------------------------------------------------
\* C32: in every reachable state the sender of a session is not its
\* receiver
C32_SenderIsNotReceiver ==
    \A s \in DOMAIN sessions :
        sessions[s].senderUserId # sessions[s].receiverUserId

\* ------------------------------------------------------------------------
\* C33
\* ------------------------------------------------------------------------
\* C33: no step changes the manifest, the sender or the receiver of an
\* existing session, removes a file transfer or changes its session, its
\* Drive file or its owner ids, or adds a file transfer to an existing
\* session
C33_OnlyStatusFieldsChange ==
    [][/\ \A s \in DOMAIN sessions :
            /\ s \in DOMAIN sessions'
            /\ sessions'[s].metadata = sessions[s].metadata
            /\ sessions'[s].senderUserId = sessions[s].senderUserId
            /\ sessions'[s].receiverUserId = sessions[s].receiverUserId
       /\ \A f \in DOMAIN files :
            /\ f \in DOMAIN files'
            /\ files'[f].sessionId = files[f].sessionId
            /\ files'[f].googleFileId = files[f].googleFileId
            /\ files'[f].originalOwnerId = files[f].originalOwnerId
            /\ files'[f].newOwnerId = files[f].newOwnerId
       /\ \A f \in DOMAIN files' \ DOMAIN files :
            files'[f].sessionId \notin DOMAIN sessions
      ]_vars

\* the session and its file transfer after status writes and requests
C33_Witness ==
    \E s \in DOMAIN sessions :
        /\ sessions[s].status = "completed"
        /\ \E f \in FilesOf(s) :
              files[f].status = "failed" /\ files[f].retryCount > 0
        /\ res.op = "cancel" /\ res.sid = s
        /\ \E r \in 1..Len(runs) : runs[r].state # "running"

\* ------------------------------------------------------------------------
\* C37
\* ------------------------------------------------------------------------
TokenRequest(op, sid, tok, caller) ==
    \/ op = "accept" /\ acceptTransferSession(sid, tok, caller)
    \/ op = "reject" /\ rejectTransferSession(sid, tok, caller)
    \/ op = "cancel" /\ cancelTransferSession(sid, tok, caller)
    \/ op = "start" /\ startTransfer(sid, tok)

C38_CreateIsAllOrNothing ==
    [][/\ (res'.op = "create" /\ res'.code # 200)
          => (sessions' = sessions /\ files' = files)
       /\ \A s \in DOMAIN sessions' :
            Cardinality({f \in DOMAIN files' : files'[f].sessionId = s})
                = Len(sessions'[s].metadata)
      ]_vars

====
